---- MODULE Spec2Model ----
(***************************************************************************)
(* Model of src/handler.rs: the Handler that routes chat messages and      *)
(* callback queries to workflow handlers, each of which is a boxed future  *)
(* built from and_then stages over the bot, api and db collaborators.      *)
(*                                                                         *)
(* Strings that are formatted or parsed are sequences of one-character     *)
(* strings, so that format! and the payload decoder are modelled by what   *)
(* they do.  Option values are sequences: None is <<>>, Some(x) is <<x>>.  *)
(***************************************************************************)
EXTENDS Integers, Sequences, FiniteSets, TLC

VARIABLES db, event, handler, lookup, chain, val, calls, result,
          cmd, payload, decoded

vars == <<db, event, handler, lookup, chain, val, calls, result,
          cmd, payload, decoded>>

evvars == <<db, event, handler, lookup, chain, val, calls, result>>

codecvars == <<cmd, payload, decoded>>

----------------------------------------------------------------------------
(* Bounds of the model *)

\* largest numeric field of a command drawn in CodecSpec
MaxNum == 12

\* the events that can be in flight together
Events == {"e1", "e2"}

----------------------------------------------------------------------------
(* Option, Result *)

None == <<>>

Some(x) == <<x>>

is_some(o) == o # <<>>

unwrap(o) == o[1]

unwrap_or(o, dflt) == IF is_some(o) THEN unwrap(o) ELSE dflt

Pending == <<>>

Ok == <<"Ok">>

Err(m) == <<"Err", m>>

Panic == <<"Panic">>

----------------------------------------------------------------------------
(* Characters and literal strings *)

Digits == <<"0", "1", "2", "3", "4", "5", "6", "7", "8", "9">>

Slash == <<"/">>

StrOffset == <<"o", "f", "f", "s", "e", "t">>

StrDetail == <<"d", "e", "t", "a", "i", "l">>

StrProgress == <<"p", "r", "o", "g", "r", "e", "s", "s">>

StrList == <<"l", "i", "s", "t">>

StrUpdate == <<"u", "p", "d", "a", "t", "e">>

StrVersion == <<"v", "e", "r", "s", "i", "o", "n">>

\* Display of an i64, as format!("{}", n) writes it
DecLastDigit(n) == <<Digits[(n % 10) + 1]>>

RECURSIVE Dec(_)
Dec(n) ==
  IF n < 0 THEN <<"-">> \o Dec(0 - n)
  ELSE IF n < 10 THEN <<Digits[n + 1]>>
  ELSE Dec(n \div 10) \o <<Digits[(n % 10) + 1]>>

IsDigit(c) == \E d \in 1..10 : Digits[d] = c

DigitVal(c) == (CHOOSE d \in 1..10 : Digits[d] = c) - 1

RECURSIVE DigitsVal(_)
DigitsVal(s) ==
  IF s = <<>> THEN 0
  ELSE 10 * DigitsVal(SubSeq(s, 1, Len(s) - 1)) + DigitVal(s[Len(s)])

\* a decimal integer of the payload grammar: Some(n), or None when the
\* segment is empty or holds a non-digit
ParseInt(s) ==
  IF s # <<>> /\ \A i \in 1..Len(s) : IsDigit(s[i])
  THEN Some(DigitsVal(s))
  ELSE None

\* the segments of s between slashes; "/7/x/" gives <<"", "7", "x", "">>
RECURSIVE Split(_)
Split(s) ==
  IF \A i \in 1..Len(s) : s[i] # "/" THEN <<s>>
  ELSE LET i == CHOOSE i \in 1..Len(s) :
                  s[i] = "/" /\ \A j \in 1..(i - 1) : s[j] # "/"
       IN  <<SubSeq(s, 1, i - 1)>> \o Split(SubSeq(s, i + 1, Len(s)))

----------------------------------------------------------------------------
(* QueryCommand, MsgCommand and their parsers *)

Offset(kitsu_id, offset) ==
  [type |-> "Offset", kitsu_id |-> kitsu_id, offset |-> offset]

Detail(kitsu_id, anime_id) ==
  [type |-> "Detail", kitsu_id |-> kitsu_id, anime_id |-> anime_id]

Progress(kitsu_id, anime_id, entry_id, progress) ==
  [type |-> "Progress", kitsu_id |-> kitsu_id, anime_id |-> anime_id,
   entry_id |-> entry_id, progress |-> progress]

Done(rest, command) == [done |-> TRUE, rest |-> rest, command |-> command]

Error == [done |-> FALSE]

\* decoder of the wire grammar
\*   "/" subject_id "/" "offset" "/" offset "/"
\*   "/" subject_id "/" "detail" "/" entry_id "/"
\*   "/" subject_id "/" "progress" "/" entry_id "/" entry_instance_id "/" progress "/"
parse_query(data) ==
  LET segs == Split(data)
      n == Len(segs)
  IN  IF n < 5 \/ segs[1] # <<>> \/ segs[n] # <<>> \/ ~is_some(ParseInt(segs[2]))
      THEN Error
      ELSE LET kitsu_id == unwrap(ParseInt(segs[2])) IN
           IF segs[3] = StrOffset /\ n = 5 /\ is_some(ParseInt(segs[4]))
           THEN Done(<<>>, Offset(kitsu_id, unwrap(ParseInt(segs[4]))))
           ELSE IF segs[3] = StrDetail /\ n = 5 /\ is_some(ParseInt(segs[4]))
           THEN Done(<<>>, Detail(kitsu_id, unwrap(ParseInt(segs[4]))))
           ELSE IF segs[3] = StrProgress /\ n = 7 /\ is_some(ParseInt(segs[6]))
           THEN Done(<<>>, Progress(kitsu_id, segs[4], segs[5],
                                    unwrap(ParseInt(segs[6]))))
           ELSE Error

\* parser of the text commands: exact, case-sensitive literal tokens
parse_message(text) ==
  IF text = StrList THEN Done(<<>>, "List")
  ELSE IF text = StrUpdate THEN Done(<<>>, "Update")
  ELSE IF text = StrVersion THEN Done(<<>>, "Version")
  ELSE Error

----------------------------------------------------------------------------
(* Collaborator calls: bot (transport), api (remote service), db (store) *)

HTML == "HTML"

Call(op, args) == [op |-> op, args |-> args]

BotSendMessage(chat_id, text, parse_mode, reply_markup) ==
  Call("send_message", <<chat_id, text, parse_mode, reply_markup>>)

BotEditInlineKeyboard(msg_id, chat_id, text, parse_mode, reply_markup) ==
  Call("edit_inline_keyboard", <<msg_id, chat_id, text, parse_mode, reply_markup>>)

BotAnswerQuery(query_id, text, show_alert) ==
  Call("answer_query", <<query_id, text, show_alert>>)

ApiFetchAnime(kitsu_id, offset) == Call("fetch_anime", <<kitsu_id, offset>>)

ApiGetAnime(kitsu_id, anime_id) == Call("get_anime", <<kitsu_id, anime_id>>)

ApiUpdateAnimeEntry(tok, entry_id, progress, anime_id) ==
  Call("update_anime_entry", <<tok, entry_id, progress, anime_id>>)

DbFetch == Call("db_fetch", <<>>)

InlineKeyboardButton(text, callback_data) ==
  [text |-> text, callback_data |-> callback_data]

\* the token store: per sender, None or Some of a subject id and a token
Users == {1}

DbEntries == {None,
              Some([kitsu_id |-> 7, token |-> "tokenA"]),
              Some([kitsu_id |-> 7, token |-> "tokenB"])}

DbStates == [Users -> DbEntries]

get_kitsu_id(d, user_id) ==
  IF user_id \in DOMAIN d /\ is_some(d[user_id])
  THEN Some(unwrap(d[user_id]).kitsu_id)
  ELSE None

get_token(d, user_id, kitsu_id) ==
  IF user_id \in DOMAIN d /\ is_some(d[user_id])
     /\ unwrap(d[user_id]).kitsu_id = kitsu_id
  THEN Some(unwrap(d[user_id]).token)
  ELSE None

\* the users a refresh returns
users_of(d) == {u \in DOMAIN d : is_some(d[u])}

\* formatting of fetched data into text and keyboard
parse_anime_list(kitsu_id, data) ==
  [text |-> <<"anime list", Dec(kitsu_id), data>>,
   buttons |-> <<"anime list buttons", kitsu_id, data>>]

parse_anime_detail(kitsu_id, pair) ==
  [text |-> <<"anime detail", Dec(kitsu_id), pair>>,
   buttons |-> <<"anime detail buttons", kitsu_id, pair>>]

----------------------------------------------------------------------------
(* Futures: a boxed future is the sequence of its remaining stages.  A     *)
(* stage is a collaborator call, a closure that makes a collaborator call  *)
(* from the value of the previous stage, or a closure that returns         *)
(* Ok(value) at once.  val is the value flowing through the chain.         *)

Val0 == [data |-> "", text |-> <<>>, buttons |-> <<>>, users |-> {}]

StCall(c) == [kind |-> "call", call |-> c]

StSendPiped(chat_id) == [kind |-> "send_piped", chat_id |-> chat_id]

StEditPiped(msg_id, chat_id) ==
  [kind |-> "edit_piped", msg_id |-> msg_id, chat_id |-> chat_id]

StSendUsers(chat_id) == [kind |-> "send_users", chat_id |-> chat_id]

StParseList(kitsu_id) == [kind |-> "parse_anime_list", kitsu_id |-> kitsu_id]

StParseDetail(kitsu_id) == [kind |-> "parse_anime_detail", kitsu_id |-> kitsu_id]

StUnit == [kind |-> "unit"]

IsPure(st) == st.kind \in {"parse_anime_list", "parse_anime_detail", "unit"}

\* the collaborator call a stage makes when it is given v
NextCall_token_read_late(st, v) ==
  CASE st.kind = "call" ->
         IF st.call.op = "update_anime_entry"
         THEN LET u == CHOOSE u \in Users : TRUE
                  tok == IF is_some(db[u]) THEN unwrap(db[u]).token ELSE ""
              IN  ApiUpdateAnimeEntry(tok, st.call.args[2], st.call.args[3],
                                      st.call.args[4])
         ELSE st.call
    [] st.kind = "send_piped" ->
         BotSendMessage(st.chat_id, v.text, Some(HTML), Some(v.buttons))
    [] st.kind = "edit_piped" ->
         BotEditInlineKeyboard(st.msg_id, st.chat_id, v.text, Some(HTML),
                               Some(v.buttons))
    [] st.kind = "send_users" ->
         BotSendMessage(st.chat_id,
                        <<"<pre>Successful update: ",
                          Dec(Cardinality(v.users)), " user(s)</pre>">>,
                        Some(HTML), None)

NextCall(st, v) ==
  CASE st.kind = "call" -> st.call
    [] st.kind = "send_piped" ->
         BotSendMessage(st.chat_id, v.text, Some(HTML), Some(v.buttons))
    [] st.kind = "edit_piped" ->
         BotEditInlineKeyboard(st.msg_id, st.chat_id, v.text, Some(HTML),
                               Some(v.buttons))
    [] st.kind = "send_users" ->
         BotSendMessage(st.chat_id,
                        <<"<pre>Successful update: ",
                          Dec(Cardinality(v.users)), " user(s)</pre>">>,
                        Some(HTML), None)

\* the value a closure returning Ok(..) yields
ApplyPure(st, v) ==
  CASE st.kind = "parse_anime_list" ->
         LET r == parse_anime_list(st.kitsu_id, v.data)
         IN  [v EXCEPT !.text = r.text, !.buttons = r.buttons]
    [] st.kind = "parse_anime_detail" ->
         LET r == parse_anime_detail(st.kitsu_id, v.data)
         IN  [v EXCEPT !.text = r.text, !.buttons = r.buttons]
    [] st.kind = "unit" -> Val0

\* and_then: the rest of the chain runs only when the stage succeeded
and_then_regardless(rest, ok) == rest

and_then(rest, ok) == IF ok THEN rest ELSE <<>>

\* closures that return Ok(..) resolve in the same poll as their input
RECURSIVE Settle(_, _)
Settle(ch, v) ==
  IF ch # <<>> /\ IsPure(Head(ch))
  THEN Settle(Tail(ch), ApplyPure(Head(ch), v))
  ELSE [chain |-> ch, val |-> v]

----------------------------------------------------------------------------
(* The workflow handlers: each returns the future it builds *)

TextUnknown == <<"Unknown command.">>

TextVersion == <<"<pre>Sagiri-", "VERSION", "\nFor more information, please visit the wiki.</pre>">>

TextNonRegistered == <<"Non-registered user">>

unknown(chat_id) ==
  << StCall(BotSendMessage(chat_id, TextUnknown, None, None)), StUnit >>

version(chat_id) ==
  << StCall(BotSendMessage(chat_id, TextVersion, Some(HTML), None)), StUnit >>

list_second_page(d, user_id, chat_id) ==
  LET k == get_kitsu_id(d, user_id) IN
  IF ~is_some(k)
  THEN << StCall(BotSendMessage(chat_id,
                                <<"Non-registered user: ", Dec(user_id)>>,
                                None, None)),
          StUnit >>
  ELSE << StCall(ApiFetchAnime(unwrap(k), 1)),
          StParseList(unwrap(k)),
          StSendPiped(chat_id),
          StUnit >>

list_fetch_unregistered(d, user_id, chat_id) ==
  LET k == get_kitsu_id(d, user_id) IN
  << StCall(ApiFetchAnime(unwrap_or(k, 0), 0)),
     StParseList(unwrap_or(k, 0)),
     StSendPiped(chat_id),
     StUnit >>

list(d, user_id, chat_id) ==
  LET k == get_kitsu_id(d, user_id) IN
  IF ~is_some(k)
  THEN << StCall(BotSendMessage(chat_id,
                                <<"Non-registered user: ", Dec(user_id)>>,
                                None, None)),
          StUnit >>
  ELSE << StCall(ApiFetchAnime(unwrap(k), 0)),
          StParseList(unwrap(k)),
          StSendPiped(chat_id),
          StUnit >>

update(chat_id) ==
  << StCall(DbFetch), StSendUsers(chat_id), StUnit >>

offset_answer_first(msg_id, chat_id, kitsu_id, off, query_id) ==
  << StCall(ApiFetchAnime(kitsu_id, off)),
     StParseList(kitsu_id),
     StCall(BotAnswerQuery(query_id, None, None)),
     StEditPiped(msg_id, chat_id),
     StUnit >>

offset_first_page(msg_id, chat_id, kitsu_id, off, query_id) ==
  << StCall(ApiFetchAnime(kitsu_id, 0)),
     StParseList(kitsu_id),
     StEditPiped(msg_id, chat_id),
     StCall(BotAnswerQuery(query_id, None, None)),
     StUnit >>

offset(msg_id, chat_id, kitsu_id, off, query_id) ==
  << StCall(ApiFetchAnime(kitsu_id, off)),
     StParseList(kitsu_id),
     StEditPiped(msg_id, chat_id),
     StCall(BotAnswerQuery(query_id, None, None)),
     StUnit >>

detail_sends_message(msg_id, chat_id, kitsu_id, anime_id, query_id) ==
  << StCall(ApiGetAnime(kitsu_id, anime_id)),
     StParseDetail(kitsu_id),
     StSendPiped(chat_id),
     StUnit >>

detail_then_answer(msg_id, chat_id, kitsu_id, anime_id, query_id) ==
  << StCall(ApiGetAnime(kitsu_id, anime_id)),
     StParseDetail(kitsu_id),
     StEditPiped(msg_id, chat_id),
     StCall(BotAnswerQuery(query_id, None, None)),
     StUnit >>

detail(msg_id, chat_id, kitsu_id, anime_id, query_id) ==
  << StCall(ApiGetAnime(kitsu_id, anime_id)),
     StParseDetail(kitsu_id),
     StEditPiped(msg_id, chat_id),
     StUnit >>

\* format!("/{}/detail/{}/", kitsu_id, anime_id), anime_id a String
BackToAnimeData(kitsu_id, anime_id) ==
  Slash \o Dec(kitsu_id) \o Slash \o StrDetail \o Slash \o anime_id \o Slash

\* format!("/{}/offset/0/", kitsu_id)
BackToListData(kitsu_id) ==
  Slash \o Dec(kitsu_id) \o Slash \o StrOffset \o Slash \o <<"0">> \o Slash

\* format!("Successful update to episode {}", progress)
ProgressText(prog) == <<"Successful update to episode ", Dec(prog)>>

ProgressButtons(kitsu_id, anime_id) ==
  << <<InlineKeyboardButton("back to anime", BackToAnimeData(kitsu_id, anime_id))>>,
     <<InlineKeyboardButton("back to list", BackToListData(kitsu_id))>> >>

progress_alert_then_edit(d, msg_id, chat_id, user_id, kitsu_id, anime_id, prog, entry_id, query_id) ==
  LET tok == get_token(d, user_id, kitsu_id)
      text == ProgressText(prog)
      buttons == ProgressButtons(kitsu_id, anime_id)
  IN  IF ~is_some(tok)
      THEN << StCall(BotAnswerQuery(query_id, Some(TextNonRegistered), Some(TRUE))),
              StCall(BotEditInlineKeyboard(msg_id, chat_id, text, Some(HTML),
                                           Some(buttons))),
              StUnit >>
      ELSE << StCall(ApiUpdateAnimeEntry(unwrap(tok), entry_id, prog, anime_id)),
              StCall(BotEditInlineKeyboard(msg_id, chat_id, text, Some(HTML),
                                           Some(buttons))),
              StUnit >>

progress_edit_first(d, msg_id, chat_id, user_id, kitsu_id, anime_id, prog, entry_id, query_id) ==
  LET tok == get_token(d, user_id, kitsu_id)
      text == ProgressText(prog)
      buttons == ProgressButtons(kitsu_id, anime_id)
  IN  IF ~is_some(tok)
      THEN << StCall(BotAnswerQuery(query_id, Some(TextNonRegistered), Some(TRUE))),
              StUnit >>
      ELSE << StCall(BotEditInlineKeyboard(msg_id, chat_id, text, Some(HTML),
                                           Some(buttons))),
              StCall(ApiUpdateAnimeEntry(unwrap(tok), entry_id, prog, anime_id)),
              StUnit >>

progress(d, msg_id, chat_id, user_id, kitsu_id, anime_id, prog, entry_id, query_id) ==
  LET tok == get_token(d, user_id, kitsu_id)
      text == ProgressText(prog)
      buttons == ProgressButtons(kitsu_id, anime_id)
  IN  IF ~is_some(tok)
      THEN << StCall(BotAnswerQuery(query_id, Some(TextNonRegistered), Some(TRUE))),
              StUnit >>
      ELSE << StCall(ApiUpdateAnimeEntry(unwrap(tok), entry_id, prog, anime_id)),
              StCall(BotEditInlineKeyboard(msg_id, chat_id, text, Some(HTML),
                                           Some(buttons))),
              StUnit >>

----------------------------------------------------------------------------
(* Incoming events *)

RECURSIVE Path(_)
Path(segs) ==
  IF segs = <<>> THEN Slash ELSE Slash \o Head(segs) \o Path(Tail(segs))

StrAbc == <<"a", "b", "c">>

StrXyz == <<"x", "y", "z">>

OffsetData == Path(<<Dec(7), StrOffset, Dec(3)>>)

ProgressData == Path(<<Dec(7), StrProgress, StrAbc, StrXyz, Dec(5)>>)

Payloads ==
  { OffsetData,
    Path(<<Dec(7), StrDetail, Dec(42)>>),
    ProgressData,
    Path(<<Dec(7), StrProgress, Dec(12), Dec(34), Dec(5)>>),
    Path(<<Dec(9), StrProgress, Dec(12), Dec(34), Dec(5)>>),
    <<>>,
    Path(<<Dec(7), StrOffset, <<"x">> >>),
    Path(<<Dec(7), <<"f", "o", "o">>, Dec(3)>>),
    Path(<<Dec(7), StrOffset, Dec(3), Dec(4)>>),
    SubSeq(OffsetData, 1, Len(OffsetData) - 1),
    OffsetData \o <<"x">> }

Texts ==
  { StrList, StrUpdate, StrVersion, <<>>, <<" ">>,
    <<"L", "i", "s", "t">>, StrList \o <<" ">>, StrList \o <<"x">> }

Chats == {[id |-> 100]}

Senders == {[id |-> u] : u \in Users}

OptionOf(S) == {None} \cup {Some(x) : x \in S}

Messages ==
  [kind : {"message"}, chat : OptionOf(Chats), from : OptionOf(Senders),
   text : OptionOf(Texts)]

CallbackQueries ==
  [kind : {"query"}, id : {"cb"}, from : Senders, data : OptionOf(Payloads),
   message : OptionOf([message_id : OptionOf({5}), chat : OptionOf(Chats)])]

NoEvent == [kind |-> "none"]

----------------------------------------------------------------------------
(* The dispatcher *)

Routed(h, l, ch) ==
  [handler |-> h, lookup |-> l, chain |-> ch, result |-> Pending]

Finished(r) ==
  [handler |-> "none", lookup |-> None, chain |-> <<>>, result |-> r]

\* the `_ =>` arm of handle_message: text that parse_message does not accept
unrecognized_text_lists(d, user_id, chat_id) ==
  Routed("list", get_kitsu_id(d, user_id), list(d, user_id, chat_id))

unrecognized_text(d, user_id, chat_id) ==
  Routed("unknown", None, unknown(chat_id))

\* Handler::handle_message: the future it returns for msg, or the panic of
\* an unwrap on an absent chat or sender
route_message(d, msg) ==
  IF ~is_some(msg.chat) \/ ~is_some(msg.from)
  THEN Finished(Panic)
  ELSE LET chat_id == unwrap(msg.chat).id
           user_id == unwrap(msg.from).id
           text == unwrap_or(msg.text, <<>>)
           r == parse_message(text)
       IN  IF r.done
           THEN CASE r.command = "List" ->
                       Routed("list", get_kitsu_id(d, user_id),
                              list(d, user_id, chat_id))
                  [] r.command = "Update" -> Routed("update", None, update(chat_id))
                  [] r.command = "Version" -> Routed("version", None, version(chat_id))
           ELSE unrecognized_text(d, user_id, chat_id)

\* the None arm of handle_query: done(Err(TelegramError("Outdated Message.")))
outdated_as_unknown == Routed("unknown", None, unknown(0))

outdated_message == Finished(Err("Outdated Message."))

\* the `_ =>` arm of handle_query: data that parse_query does not accept
undecoded_data_first_page(msg_id, chat_id, query_id) ==
  Routed("offset", None, offset(msg_id, chat_id, 0, 0, query_id))

undecoded_data_answered(msg_id, chat_id, query_id) ==
  Routed("unknown", None,
         << StCall(BotAnswerQuery(query_id, Some(TextUnknown), Some(TRUE))), StUnit >>)

undecoded_data(msg_id, chat_id, query_id) ==
  Routed("unknown", None, unknown(chat_id))

\* Handler::handle_query
route_query(d, query) ==
  LET query_id == query.id
      user_id == query.from.id
      data == unwrap_or(query.data, <<>>)
  IN  IF is_some(query.message)
      THEN LET msg == unwrap(query.message) IN
           IF ~is_some(msg.message_id) \/ ~is_some(msg.chat)
           THEN Finished(Panic)
           ELSE LET msg_id == unwrap(msg.message_id)
                    chat_id == unwrap(msg.chat).id
                    r == parse_query(data)
                    c == r.command
                IN  IF r.done
                    THEN CASE c.type = "Offset" ->
                                Routed("offset", None,
                                       offset(msg_id, chat_id, c.kitsu_id,
                                              c.offset, query_id))
                           [] c.type = "Detail" ->
                                Routed("detail", None,
                                       detail(msg_id, chat_id, c.kitsu_id,
                                              c.anime_id, query_id))
                           [] c.type = "Progress" ->
                                Routed("progress",
                                       get_token(d, user_id, c.kitsu_id),
                                       progress(d, msg_id, chat_id, user_id,
                                                c.kitsu_id, c.anime_id,
                                                c.progress, c.entry_id, query_id))
                    ELSE undecoded_data(msg_id, chat_id, query_id)
      ELSE outdated_message

Start(e, ev, r) ==
  /\ event[e] = NoEvent
  /\ event' = [event EXCEPT ![e] = ev]
  /\ handler' = [handler EXCEPT ![e] = r.handler]
  /\ lookup' = [lookup EXCEPT ![e] = r.lookup]
  /\ chain' = [chain EXCEPT ![e] = r.chain]
  /\ result' = [result EXCEPT ![e] = r.result]
  /\ UNCHANGED <<db, val, calls, codecvars>>

handle_message(e) ==
  \E msg \in Messages : Start(e, msg, route_message(db, msg))

handle_query(e) ==
  \E query \in CallbackQueries : Start(e, query, route_query(db, query))

----------------------------------------------------------------------------
(* The stages of a future: one action per collaborator operation *)

Running(e, op) ==
  /\ chain[e] # <<>>
  /\ NextCall(Head(chain[e]), val[e]).op = op

\* the call at the head of e's chain completes with ok, yielding v
Complete_aborts_all(e, ok, v) ==
  LET call == NextCall(Head(chain[e]), val[e])
      s == Settle(and_then(Tail(chain[e]), ok), v)
  IN  /\ calls' = [calls EXCEPT ![e] =
                     Append(@, [op |-> call.op, args |-> call.args, ok |-> ok])]
      /\ chain' = IF ok THEN [chain EXCEPT ![e] = s.chain]
                  ELSE [f \in Events |-> <<>>]
      /\ val' = [val EXCEPT ![e] = IF ok THEN s.val ELSE @]
      /\ result' = IF ok
                   THEN [result EXCEPT ![e] = IF s.chain # <<>> THEN Pending ELSE Ok]
                   ELSE [f \in Events |->
                           IF f = e \/ chain[f] # <<>> THEN Err(call.op) ELSE result[f]]
      /\ UNCHANGED <<event, handler, lookup, codecvars>>

Complete_retries_once(e, ok, v) ==
  LET call == NextCall(Head(chain[e]), val[e])
      s == Settle(and_then(Tail(chain[e]), ok), v)
      retry == ~ok /\ \A i \in 1..Len(calls[e]) : calls[e][i].op # call.op
  IN  /\ calls' = [calls EXCEPT ![e] =
                     Append(@, [op |-> call.op, args |-> call.args, ok |-> ok])]
      /\ chain' = [chain EXCEPT ![e] = IF retry THEN @ ELSE s.chain]
      /\ val' = [val EXCEPT ![e] = IF ok THEN s.val ELSE @]
      /\ result' = [result EXCEPT ![e] =
                      IF retry \/ s.chain # <<>> THEN Pending
                      ELSE IF ok THEN Ok ELSE Err(call.op)]
      /\ UNCHANGED <<event, handler, lookup, codecvars>>

Complete(e, ok, v) ==
  LET call == NextCall(Head(chain[e]), val[e])
      s == Settle(and_then(Tail(chain[e]), ok), v)
  IN  /\ calls' = [calls EXCEPT ![e] =
                     Append(@, [op |-> call.op, args |-> call.args, ok |-> ok])]
      /\ chain' = [chain EXCEPT ![e] = s.chain]
      /\ val' = [val EXCEPT ![e] = IF ok THEN s.val ELSE @]
      /\ result' = [result EXCEPT ![e] =
                      IF s.chain # <<>> THEN Pending
                      ELSE IF ok THEN Ok ELSE Err(call.op)]
      /\ UNCHANGED <<event, handler, lookup, codecvars>>

RemoteData == {"data"}

fetch_anime(e) ==
  /\ Running(e, "fetch_anime")
  /\ \E ok \in BOOLEAN, d \in RemoteData :
       Complete(e, ok, [val[e] EXCEPT !.data = d])
  /\ UNCHANGED db

get_anime(e) ==
  /\ Running(e, "get_anime")
  /\ \E ok \in BOOLEAN, d \in RemoteData :
       Complete(e, ok, [val[e] EXCEPT !.data = d])
  /\ UNCHANGED db

update_anime_entry(e) ==
  /\ Running(e, "update_anime_entry")
  /\ \E ok \in BOOLEAN : Complete(e, ok, val[e])
  /\ UNCHANGED db

\* Database::fetch: refreshes the store and yields the users
db_fetch(e) ==
  /\ Running(e, "db_fetch")
  /\ \E ok \in BOOLEAN, d \in DbStates :
       /\ Complete(e, ok, [val[e] EXCEPT !.users = users_of(d)])
       /\ db' = IF ok THEN d ELSE db

send_message(e) ==
  /\ Running(e, "send_message")
  /\ \E ok \in BOOLEAN : Complete(e, ok, val[e])
  /\ UNCHANGED db

edit_inline_keyboard(e) ==
  /\ Running(e, "edit_inline_keyboard")
  /\ \E ok \in BOOLEAN : Complete(e, ok, val[e])
  /\ UNCHANGED db

answer_query(e) ==
  /\ Running(e, "answer_query")
  /\ \E ok \in BOOLEAN : Complete(e, ok, val[e])
  /\ UNCHANGED db

----------------------------------------------------------------------------
(* Specification of the handler *)

Init ==
  /\ db \in DbStates
  /\ event = [e \in Events |-> NoEvent]
  /\ handler = [e \in Events |-> "none"]
  /\ lookup = [e \in Events |-> None]
  /\ chain = [e \in Events |-> <<>>]
  /\ val = [e \in Events |-> Val0]
  /\ calls = [e \in Events |-> <<>>]
  /\ result = [e \in Events |-> Pending]
  /\ cmd = None
  /\ payload = None
  /\ decoded = None

Next ==
  \E e \in Events :
    \/ handle_message(e)
    \/ handle_query(e)
    \/ fetch_anime(e)
    \/ get_anime(e)
    \/ update_anime_entry(e)
    \/ db_fetch(e)
    \/ send_message(e)
    \/ edit_inline_keyboard(e)
    \/ answer_query(e)

Spec == Init /\ [][Next]_vars

\* the pending collaborator call of e returns
Returns(e) ==
  \/ fetch_anime(e)
  \/ get_anime(e)
  \/ update_anime_entry(e)
  \/ db_fetch(e)
  \/ send_message(e)
  \/ edit_inline_keyboard(e)
  \/ answer_query(e)

\* every collaborator call that was made returns, with success or failure
FairSpec == Spec /\ \A e \in Events : WF_vars(Returns(e))

----------------------------------------------------------------------------
(* Specification of the payload codec: a command is encoded, then decoded *)

StrIds == {<<>>, StrAbc, <<"1", "2">>}

Nums == 0..MaxNum

ValidCommands ==
  {Offset(k, o) : k \in Nums, o \in Nums}
  \cup {Detail(k, a) : k \in Nums, a \in Nums}
  \cup {Progress(k, a, en, p) : k \in Nums, a \in StrIds, en \in StrIds, p \in Nums}

\* the payload a button carries for command c
encode(c) ==
  CASE c.type = "Offset" -> Path(<<Dec(c.kitsu_id), StrOffset, Dec(c.offset)>>)
    [] c.type = "Detail" -> BackToAnimeData(c.kitsu_id, Dec(c.anime_id))
    [] c.type = "Progress" ->
         Path(<<Dec(c.kitsu_id), StrProgress, c.anime_id, c.entry_id,
                Dec(c.progress)>>)

EncodeCommand ==
  /\ ~is_some(payload)
  /\ payload' = Some(encode(cmd))
  /\ UNCHANGED <<cmd, decoded, evvars>>

DecodeData ==
  /\ is_some(payload)
  /\ ~is_some(decoded)
  /\ decoded' = Some(parse_query(unwrap(payload)))
  /\ UNCHANGED <<cmd, payload, evvars>>

CodecInit ==
  /\ db = [u \in Users |-> None]
  /\ event = [e \in Events |-> NoEvent]
  /\ handler = [e \in Events |-> "none"]
  /\ lookup = [e \in Events |-> None]
  /\ chain = [e \in Events |-> <<>>]
  /\ val = [e \in Events |-> Val0]
  /\ calls = [e \in Events |-> <<>>]
  /\ result = [e \in Events |-> Pending]
  /\ cmd \in ValidCommands
  /\ payload = None
  /\ decoded = None

CodecNext == EncodeCommand \/ DecodeData

CodecSpec == CodecInit /\ [][CodecNext]_vars

----------------------------------------------------------------------------
(* Vocabulary of the properties *)

UiOps == {"send_message", "edit_inline_keyboard", "answer_query"}

RemoteOps == {"fetch_anime", "get_anime", "update_anime_entry", "db_fetch"}

IsErr(r) == Len(r) = 2 /\ r[1] = "Err"

\* the operations of the calls of log cs that satisfy ui / succeeded
RECURSIVE UiOpsOf(_)
UiOpsOf(cs) ==
  IF cs = <<>> THEN <<>>
  ELSE (IF Head(cs).op \in UiOps THEN <<Head(cs).op>> ELSE <<>>) \o UiOpsOf(Tail(cs))

OpsOf(cs) == [i \in 1..Len(cs) |-> cs[i].op]

OksOf(cs) == [i \in 1..Len(cs) |-> cs[i].ok]

\* the command a routed callback event carries
CommandOf(e) == parse_query(unwrap_or(event[e].data, <<>>)).command

MsgIdOf(e) == unwrap(unwrap(event[e].message).message_id)

ChatIdOf(e) == unwrap(unwrap(event[e].message).chat).id

\* cs is a prefix of the calls expected, each call before the last succeeded
FollowsPlan(cs, plan) ==
  /\ Len(cs) <= Len(plan)
  /\ \A i \in 1..Len(cs) :
       /\ cs[i].op = plan[i].op
       /\ cs[i].args = plan[i].args
       /\ (i < Len(cs) => cs[i].ok)

----------------------------------------------------------------------------
(* C1: when a remote call (fetch_anime, get_anime, update_anime_entry,     *)
(* db_fetch) of an event's chain fails, it is the last call of the chain,  *)
(* no send_message, edit_inline_keyboard or answer_query is issued for the *)
(* event, and the result is one error value.                               *)
C1_RemoteFailureAborts ==
  \A e \in Events : \A i \in 1..Len(calls[e]) :
    (calls[e][i].op \in RemoteOps /\ ~calls[e][i].ok) =>
      /\ i = Len(calls[e])
      /\ chain[e] = <<>>
      /\ UiOpsOf(calls[e]) = <<>>
      /\ result[e] = Err(calls[e][i].op)

C1_Witness ==
  /\ handler["e1"] = "offset" /\ OpsOf(calls["e1"]) = <<"fetch_anime">>
  /\ IsErr(result["e1"])
  /\ handler["e2"] = "progress" /\ OpsOf(calls["e2"]) = <<"update_anime_entry">>
  /\ IsErr(result["e2"])

(* C2: a callback query without its originating message yields the error   *)
(* at once: no handler is chosen, no call is issued and none is pending,   *)
(* whatever the payload.                                                   *)
C2_StaleCallbackFails ==
  \A e \in Events :
    (event[e].kind = "query" /\ ~is_some(event[e].message)) =>
      /\ result[e] = Err("Outdated Message.")
      /\ handler[e] = "none"
      /\ chain[e] = <<>>
      /\ calls[e] = <<>>

C2_Witness ==
  /\ event["e1"].kind = "query"
  /\ ~is_some(event["e1"].message)
  /\ event["e1"].data = Some(OffsetData)
  /\ IsErr(result["e1"])

(* C3 as stated: a handler whose calls all succeed has issued exactly one  *)
(* of send_message, edit_inline_keyboard, answer_query.                    *)
C3_ExactlyOneUiAction ==
  \A e \in Events :
    (handler[e] # "none" /\ result[e] = Ok) => Len(UiOpsOf(calls[e])) = 1

(* C3 amended: a handler whose calls all succeed has issued exactly one UI *)
(* action, except Offset, which has issued exactly two: the edit, then the *)
(* answer.                                                                 *)
C3_OneUiActionExceptOffset ==
  \A e \in Events :
    (handler[e] # "none" /\ result[e] = Ok) =>
      IF handler[e] = "offset"
      THEN UiOpsOf(calls[e]) = <<"edit_inline_keyboard", "answer_query">>
      ELSE Len(UiOpsOf(calls[e])) = 1

C3_Witness ==
  /\ handler["e1"] = "offset" /\ result["e1"] = Ok
  /\ handler["e2"] = "detail" /\ result["e2"] = Ok

(* C4 as stated: a handler that ends in an error has performed no UI       *)
(* action for its event.                                                   *)
C4_NoUiActionBeforeError ==
  \A e \in Events :
    IsErr(result[e]) =>
      \A i \in 1..Len(calls[e]) : ~(calls[e][i].op \in UiOps /\ calls[e][i].ok)

(* C4 amended: a handler that ends in an error has performed no UI action, *)
(* except Offset when its answer_query fails after the edit succeeded.     *)
C4_NoUiActionBeforeErrorExceptOffsetAnswer ==
  \A e \in Events :
    IsErr(result[e]) =>
      \/ \A i \in 1..Len(calls[e]) : ~(calls[e][i].op \in UiOps /\ calls[e][i].ok)
      \/ /\ handler[e] = "offset"
         /\ OpsOf(calls[e]) = <<"fetch_anime", "edit_inline_keyboard", "answer_query">>
         /\ OksOf(calls[e]) = <<TRUE, TRUE, FALSE>>

C4_Witness ==
  /\ handler["e1"] = "offset" /\ OksOf(calls["e1"]) = <<TRUE, TRUE, FALSE>>
  /\ IsErr(result["e1"])
  /\ handler["e2"] = "list" /\ OpsOf(calls["e2"]) = <<"fetch_anime", "send_message">>
  /\ IsErr(result["e2"])

(* C5: Offset calls fetch_anime(kitsu_id, offset), then edits the          *)
(* originating message (msg_id, chat_id), then answers the callback        *)
(* (query_id) with no text and no show_alert; each only after the one      *)
(* before it succeeded.                                                    *)
C5_OffsetOrder ==
  \A e \in Events :
    handler[e] = "offset" =>
      LET c == CommandOf(e)
          r == parse_anime_list(c.kitsu_id, "data")
      IN  FollowsPlan(calls[e],
            << ApiFetchAnime(c.kitsu_id, c.offset),
               BotEditInlineKeyboard(MsgIdOf(e), ChatIdOf(e), r.text, Some(HTML),
                                     Some(r.buttons)),
               BotAnswerQuery(event[e].id, None, None) >>)

C5_Witness ==
  /\ handler["e1"] = "offset"
  /\ event["e1"].data = Some(OffsetData)
  /\ Len(calls["e1"]) = 3
  /\ result["e1"] = Ok

(* C6: a callback routed to Offset, Detail or Progress whose calls all     *)
(* succeed has been answered with answer_query(query_id), after the edit   *)
(* of the message.                                                         *)
C6_CallbackAnsweredAfterEdit ==
  \A e \in Events :
    (handler[e] \in {"offset", "detail", "progress"} /\ result[e] = Ok) =>
      \E i, j \in 1..Len(calls[e]) :
        /\ i < j
        /\ calls[e][i].op = "edit_inline_keyboard"
        /\ calls[e][j].op = "answer_query"
        /\ calls[e][j].args[1] = event[e].id

(* C7: Progress from a sender without a token for (user_id, kitsu_id)      *)
(* answers the callback with "Non-registered user" and show_alert = true   *)
(* and does nothing else.                                                  *)
C7_ProgressWithoutToken ==
  \A e \in Events :
    (handler[e] = "progress" /\ ~is_some(lookup[e])) =>
      /\ FollowsPlan(calls[e],
           << BotAnswerQuery(event[e].id, Some(TextNonRegistered), Some(TRUE)) >>)
      /\ (chain[e] # <<>> => calls[e] = <<>>)
      /\ (chain[e] = <<>> => Len(calls[e]) = 1)

C7_Witness ==
  /\ handler["e1"] = "progress"
  /\ ~is_some(lookup["e1"])
  /\ event["e1"].data = Some(ProgressData)
  /\ OpsOf(calls["e1"]) = <<"answer_query">>
  /\ result["e1"] = Ok

(* C8: in Progress the edit to "Successful update to episode <progress>"   *)
(* is issued only right after update_anime_entry(token, entry_id,          *)
(* progress, anime_id) succeeded.                                          *)
C8_ConfirmationAfterUpdate ==
  \A e \in Events : \A i \in 1..Len(calls[e]) :
    (handler[e] = "progress" /\ calls[e][i].op = "edit_inline_keyboard") =>
      LET c == CommandOf(e) IN
      /\ i = 2
      /\ calls[e][1].op = "update_anime_entry"
      /\ calls[e][1].ok
      /\ is_some(lookup[e])
      /\ calls[e][1].args = <<unwrap(lookup[e]), c.entry_id, c.progress, c.anime_id>>
      /\ calls[e][i].args[3] = <<"Successful update to episode ", Dec(c.progress)>>
      /\ calls[e][i].args[1] = MsgIdOf(e)
      /\ calls[e][i].args[2] = ChatIdOf(e)

C8_Witness ==
  /\ handler["e1"] = "progress"
  /\ OpsOf(calls["e1"]) = <<"update_anime_entry", "edit_inline_keyboard">>
  /\ result["e1"] = Ok

(* C9: the payloads of the keyboard of a Progress confirmation are valid:  *)
(* "back to anime" decodes to Detail with the kitsu_id and anime_id of the *)
(* Progress command, "back to list" to Offset{kitsu_id, 0}.                *)
C9_BackButtonsDecode ==
  \A e \in Events : \A i \in 1..Len(calls[e]) :
    (handler[e] = "progress" /\ calls[e][i].op = "edit_inline_keyboard") =>
      LET c == CommandOf(e)
          buttons == unwrap(calls[e][i].args[5])
          anime == parse_query(buttons[1][1].callback_data)
          back == parse_query(buttons[2][1].callback_data)
      IN  /\ anime.done
          /\ anime.command.type = "Detail"
          /\ anime.command.kitsu_id = c.kitsu_id
          /\ ParseInt(c.anime_id) = Some(anime.command.anime_id)
          /\ back.done
          /\ back.command = Offset(c.kitsu_id, 0)

(* C10: decoding the payload encoded from a valid command yields that      *)
(* command: same variant, every field equal.                               *)
C10_RoundTrip ==
  is_some(decoded) =>
    /\ unwrap(decoded).done
    /\ unwrap(decoded).command.type = cmd.type
    /\ unwrap(decoded).command = cmd

C10_Witness ==
  /\ is_some(decoded)
  /\ cmd.type = "Progress"
  /\ cmd.kitsu_id >= 10
  /\ cmd.anime_id = StrAbc
  /\ cmd.entry_id = <<>>

(* C11: text "list" from a sender whose subject id the store knows calls   *)
(* fetch_anime(kitsu_id, 0) and then, on success, send_message to the      *)
(* sender's chat with HTML markup and a keyboard; nothing else, and no     *)
(* edit_inline_keyboard or answer_query.                                   *)
C11_ListRegistered ==
  \A e \in Events :
    (handler[e] = "list" /\ is_some(lookup[e])) =>
      LET k == unwrap(lookup[e])
          r == parse_anime_list(k, "data")
      IN  /\ FollowsPlan(calls[e],
               << ApiFetchAnime(k, 0),
                  BotSendMessage(unwrap(event[e].chat).id, r.text, Some(HTML),
                                 Some(r.buttons)) >>)
          /\ (result[e] = Ok => Len(calls[e]) = 2)

C11_Witness ==
  /\ handler["e1"] = "list"
  /\ lookup["e1"] = Some(7)
  /\ event["e1"].text = Some(StrList)
  /\ OpsOf(calls["e1"]) = <<"fetch_anime", "send_message">>
  /\ result["e1"] = Ok

(* C12: text "list" from a sender without a stored subject id sends one    *)
(* message "Non-registered user: <user_id>" with no markup and no          *)
(* keyboard, and never calls fetch_anime.                                  *)
C12_ListUnregistered ==
  \A e \in Events :
    (handler[e] = "list" /\ ~is_some(lookup[e])) =>
      /\ FollowsPlan(calls[e],
           << BotSendMessage(unwrap(event[e].chat).id,
                             <<"Non-registered user: ",
                               Dec(unwrap(event[e].from).id)>>,
                             None, None) >>)
      /\ (chain[e] = <<>> => Len(calls[e]) = 1)

C12_Witness ==
  /\ handler["e1"] = "list"
  /\ ~is_some(lookup["e1"])
  /\ OpsOf(calls["e1"]) = <<"send_message">>
  /\ result["e1"] = Ok

(* C13: every text other than exactly "list", "update" or "version"        *)
(* (absent text counts as empty) is routed to unknown, which sends         *)
(* "Unknown command." with no markup and no keyboard and makes no other    *)
(* call.                                                                   *)
C13_UnrecognizedTextIsUnknown ==
  \A e \in Events :
    (/\ event[e].kind = "message"
     /\ is_some(event[e].chat)
     /\ is_some(event[e].from)
     /\ unwrap_or(event[e].text, <<>>) \notin {StrList, StrUpdate, StrVersion}) =>
      /\ handler[e] = "unknown"
      /\ ~is_some(lookup[e])
      /\ FollowsPlan(calls[e],
           << BotSendMessage(unwrap(event[e].chat).id, TextUnknown, None, None) >>)
      /\ (chain[e] = <<>> => Len(calls[e]) = 1)

C13_Witness ==
  /\ event["e1"].kind = "message"
  /\ event["e1"].text = Some(StrList \o <<"x">>)
  /\ handler["e1"] = "unknown"
  /\ result["e1"] = Ok
  /\ event["e2"].kind = "message"
  /\ event["e2"].text = None
  /\ handler["e2"] = "unknown"
  /\ result["e2"] = Ok

(* C14: handle_message on a message whose chat or sender is absent yields  *)
(* an error value, with no call issued or pending; it does not panic.      *)
C14_AbsentChatOrSenderIsError ==
  \A e \in Events :
    (event[e].kind = "message"
     /\ (~is_some(event[e].chat) \/ ~is_some(event[e].from))) =>
      /\ IsErr(result[e])
      /\ chain[e] = <<>>
      /\ calls[e] = <<>>

\* the first call of e's future, issued or still pending
FirstCall(e) ==
  IF calls[e] # <<>> THEN Call(calls[e][1].op, calls[e][1].args)
  ELSE NextCall(Head(chain[e]), val[e])

(* C15: Offset, Detail and Progress are reached only by a payload that is  *)
(* the encoding of a whole command: the payload is present, nothing of it  *)
(* is left undecoded, and the handler gets every field of that command.    *)
C15_HandlersGetWholeCommands ==
  \A e \in Events :
    handler[e] \in {"offset", "detail", "progress"} =>
      /\ is_some(event[e].data)
      /\ LET data == unwrap(event[e].data)
             r == parse_query(data)
             c == r.command
         IN  /\ r.done
             /\ r.rest = <<>>
             /\ encode(c) = data
             /\ handler[e] = "offset" =>
                  (c.type = "Offset" /\ FirstCall(e) = ApiFetchAnime(c.kitsu_id, c.offset))
             /\ handler[e] = "detail" =>
                  (c.type = "Detail" /\ FirstCall(e) = ApiGetAnime(c.kitsu_id, c.anime_id))
             /\ handler[e] = "progress" =>
                  /\ c.type = "Progress"
                  /\ is_some(lookup[e]) =>
                       FirstCall(e) = ApiUpdateAnimeEntry(unwrap(lookup[e]), c.entry_id,
                                                          c.progress, c.anime_id)

C15_Witness ==
  /\ handler["e1"] = "progress"
  /\ event["e1"].data = Some(ProgressData)
  /\ OpsOf(calls["e1"]) = <<"update_anime_entry">>
  /\ event["e2"].kind = "query"
  /\ event["e2"].data = Some(OffsetData \o <<"x">>)
  /\ handler["e2"] = "unknown"

(* C19: a callback that has its originating message (message_id and chat)  *)
(* but whose payload does not decode is routed to unknown: one             *)
(* send_message "Unknown command." to the chat of that message, Ok when    *)
(* the send succeeds; the message is never edited and the callback never   *)
(* answered.                                                               *)
C19_UndecodedCallbackIsUnknown ==
  \A e \in Events :
    (/\ event[e].kind = "query"
     /\ is_some(event[e].message)
     /\ is_some(unwrap(event[e].message).message_id)
     /\ is_some(unwrap(event[e].message).chat)
     /\ ~parse_query(unwrap_or(event[e].data, <<>>)).done) =>
      /\ handler[e] = "unknown"
      /\ FollowsPlan(calls[e],
           << BotSendMessage(ChatIdOf(e), TextUnknown, None, None) >>)
      /\ (chain[e] = <<>> => Len(calls[e]) = 1)
      /\ (calls[e] # <<>> => result[e] = IF calls[e][1].ok THEN Ok ELSE Err("send_message"))

C19_Witness ==
  /\ event["e1"].kind = "query"
  /\ event["e1"].data = Some(Path(<<Dec(7), StrOffset, <<"x">> >>))
  /\ handler["e1"] = "unknown"
  /\ OpsOf(calls["e1"]) = <<"send_message">>
  /\ result["e1"] = Ok

(* C18: Offset, Detail and Progress never call send_message: they edit     *)
(* only the originating message (msg_id, chat_id) of their callback and    *)
(* answer only their callback; List, Update, Version and Unknown reached   *)
(* from a text message never call edit_inline_keyboard or answer_query.    *)
C18_DisjointUiActions ==
  \A e \in Events : \A i \in 1..Len(calls[e]) :
    /\ handler[e] \in {"offset", "detail", "progress"} =>
         /\ calls[e][i].op # "send_message"
         /\ calls[e][i].op = "edit_inline_keyboard" =>
              (calls[e][i].args[1] = MsgIdOf(e) /\ calls[e][i].args[2] = ChatIdOf(e))
         /\ calls[e][i].op = "answer_query" => calls[e][i].args[1] = event[e].id
    /\ event[e].kind = "message" =>
         /\ handler[e] \in {"list", "update", "version", "unknown"}
         /\ calls[e][i].op \notin {"edit_inline_keyboard", "answer_query"}
         /\ calls[e][i].op = "send_message" =>
              calls[e][i].args[1] = unwrap(event[e].chat).id

C18_Witness ==
  /\ handler["e1"] = "detail"
  /\ OpsOf(calls["e1"]) = <<"get_anime", "edit_inline_keyboard">>
  /\ result["e1"] = Ok
  /\ handler["e2"] = "update"
  /\ OpsOf(calls["e2"]) = <<"db_fetch", "send_message">>
  /\ result["e2"] = Ok

\* the call that a step appended to e's log
NewCall(e) == calls[e]'[Len(calls[e]')]

C20_Step(e) ==
  /\ (event[e] = NoEvent /\ handler[e]' = "list") =>
       lookup[e]' = get_kitsu_id(db, unwrap(event[e]'.from).id)
  /\ (event[e] = NoEvent /\ handler[e]' = "progress") =>
       lookup[e]' = get_token(db, event[e]'.from.id,
                              parse_query(unwrap(event[e]'.data)).command.kitsu_id)
  /\ event[e] # NoEvent => (lookup[e]' = lookup[e] /\ handler[e]' = handler[e])
  /\ (handler[e] = "list" /\ Len(calls[e]') > Len(calls[e])) =>
       IF is_some(lookup[e])
       THEN /\ NewCall(e).op \in {"fetch_anime", "send_message"}
            /\ NewCall(e).op = "fetch_anime" =>
                 NewCall(e).args = <<unwrap(lookup[e]), 0>>
            /\ NewCall(e).op = "send_message" => NewCall(e).args[3] = Some(HTML)
       ELSE /\ NewCall(e).op = "send_message"
            /\ NewCall(e).args[3] = None
  /\ (handler[e] = "progress" /\ Len(calls[e]') > Len(calls[e])) =>
       IF is_some(lookup[e])
       THEN /\ NewCall(e).op \in {"update_anime_entry", "edit_inline_keyboard"}
            /\ NewCall(e).op = "update_anime_entry" =>
                 NewCall(e).args[1] = unwrap(lookup[e])
       ELSE NewCall(e).op = "answer_query"

(* C20: the store lookup of List (get_kitsu_id) and of Progress            *)
(* (get_token) is made when the event is dispatched; the branch taken and  *)
(* the subject id or token used by every later call of the chain are the   *)
(* ones looked up then, whatever a refresh does to the store meanwhile.    *)
C20_LookupFixedAtDispatch == [][\A e \in Events : C20_Step(e)]_vars

C20_Witness ==
  /\ handler["e1"] = "progress"
  /\ lookup["e1"] = Some("tokenA")
  /\ get_token(db, 1, 7) = Some("tokenB")
  /\ OpsOf(calls["e1"]) = <<"update_anime_entry">>
  /\ calls["e1"][1].args[1] = "tokenA"
  /\ chain["e1"] # <<>>
  /\ handler["e2"] = "update"
  /\ OpsOf(calls["e2"]) = <<"db_fetch">>
  /\ calls["e2"][1].ok

C16_Step(e) ==
  (Len(calls[e]') > Len(calls[e]) /\ ~NewCall(e).ok) =>
    /\ chain[e]' = <<>>
    /\ IsErr(result[e]')
    /\ db' = db
    /\ \A f \in Events \ {e} :
         /\ event[f]' = event[f]
         /\ handler[f]' = handler[f]
         /\ lookup[f]' = lookup[f]
         /\ chain[f]' = chain[f]
         /\ val[f]' = val[f]
         /\ calls[f]' = calls[f]
         /\ result[f]' = result[f]

NoRepeat(cs) == \A i, j \in 1..Len(cs) : cs[i].op = cs[j].op => i = j

(* C17: no handler retries: every collaborator operation is called at most *)
(* once for an event, and when every call that was made returns, every     *)
(* handler that was invoked completes with Ok or with one error.           *)
C17_NoRetryAndCompletion ==
  /\ [](\A e \in Events : NoRepeat(calls[e]))
  /\ \A e \in Events :
       (handler[e] # "none") ~> (result[e] = Ok \/ IsErr(result[e]))

C17_Witness ==
  /\ handler["e1"] = "update"
  /\ OpsOf(calls["e1"]) = <<"db_fetch", "send_message">>
  /\ OksOf(calls["e1"]) = <<TRUE, FALSE>>
  /\ IsErr(result["e1"])
  /\ handler["e2"] = "offset"
  /\ Len(calls["e2"]) = 3
  /\ result["e2"] = Ok

====
